---- MODULE Spec2Model ----
(***************************************************************************)
(* Model of modules/puzzles/puzzle_processing.py: find_puzzle, which       *)
(* locates the puzzle outline in a video frame, and extract_digit, which   *)
(* isolates the digit of one cell.                                         *)
(*                                                                         *)
(* The OpenCV / imutils / scikit-image routines the two functions call are *)
(* modelled by what they compute on the small rasters used here; the       *)
(* control flow, the tests, the order of the steps and the buffers read    *)
(* and written are those of the Python source.                             *)
(***************************************************************************)
EXTENDS Integers, Sequences, FiniteSets, TLC

VARIABLES
    frame,     \* find_puzzle: the caller's BGR frame buffer, site -> colour
    entry,     \* find_puzzle: the frame's contents when the call was made
    cnts,      \* find_puzzle: the contours cv2.findContours extracts from the frame
    puzzle,    \* find_puzzle: position and outcome of the call
    cell,      \* extract_digit: the caller's grayscale cell buffer, pixel -> gray level
    given,     \* extract_digit: the cell's contents when it was handed over
    calls,     \* extract_digit: the outcomes of the calls made so far, in order
    rounding   \* extract_digit: how floating point settles an exact tie in Otsu's scan

vars == <<frame, entry, cnts, puzzle, cell, given, calls, rounding>>

\* Python's None, and a value that is present: a sequence of none or one.
None == <<>>
Some(x) == <<x>>
The(opt) == opt[1]

(***************************************************************************)
(* Bounds of the model.                                                    *)
(***************************************************************************)
\* most contours one frame yields
MaxCnts == 3
\* contour areas range over 1..MaxArea, in units of AreaUnit square pixels
MaxArea == 2

(***************************************************************************)
(* find_puzzle: frames.                                                    *)
(*                                                                         *)
(* A frame is described by the pixels that matter to the function: site i  *)
(* (1..n) stands for the pixels under the outline of the i-th extracted    *)
(* contour, as cv2.drawContours would paint them, and site 0 for the rest. *)
(***************************************************************************)
Black == <<0, 0, 0>>
White == <<255, 255, 255>>
Green == <<0, 255, 0>>

\* cv2.cvtColor(frame, cv2.COLOR_BGR2GRAY) on one pixel: fixed-point
\* 0.114 B + 0.587 G + 0.299 R with 14 fractional bits, rounded.
GrayOf(bgr) == (1868 * bgr[1] + 9617 * bgr[2] + 4899 * bgr[3] + 8192) \div 16384

\* cv2.cvtColor makes a new single-channel image: it does not alias the frame.
cvtColor(fr) == [s \in DOMAIN fr |-> GrayOf(fr[s])]

(***************************************************************************)
(* find_puzzle: contours.  A contour is described by what the function     *)
(* reads of it: cv2.contourArea(c), len(approx) and the bounding box       *)
(* (w, h) of approx.  Its place in cnts is its extraction order.           *)
(***************************************************************************)
AreaUnit == 30
\* Bounding boxes <<w, h>>: below the size minimum, at it in one or both
\* directions, and above it with w/h below 0.8, at 0.8, at 1.2 and above 1.2.
Boxes == {<<10, 10>>, <<45, 45>>, <<45, 60>>, <<48, 45>>,
          <<47, 60>>, <<48, 60>>, <<72, 60>>, <<73, 60>>}

\* The bounding box is computed for 4-vertex approximations only, so the
\* other contours are given one box.
Contours ==
    { [area |-> a * AreaUnit, nv |-> 4, w |-> b[1], h |-> b[2]] :
        a \in 1..MaxArea, b \in Boxes }
    \cup { [area |-> a * AreaUnit, nv |-> 5, w |-> 48, h |-> 60] : a \in 1..MaxArea }

\* keepDims = w >= 45 and h >= 45
keepDimsInclusive(w, h) == w >= 45 /\ h >= 45

\* keepDims = w > 45 and h > 45
keepDims(w, h) == w > 45 /\ h > 45

\* aspectRatio = w / float(h); keepAspectRatio = 0.8 <= aspectRatio <= 1.2.
\* w and h are positive integers far below 2^53, so the correctly rounded
\* quotient compares with the literals 0.8 and 1.2 as the exact one does
\* with 4/5 and 6/5.
keepAspectRatio(w, h) == 10 * w >= 8 * h /\ 10 * w <= 12 * h

RECURSIVE InsertByArea(_, _, _)
\* Place index i into the sequence s of indices, after every index whose
\* area is at least that of i.
InsertByArea(cs, s, i) ==
    IF s = <<>> THEN <<i>>
    ELSE IF cs[Head(s)].area >= cs[i].area
         THEN <<Head(s)>> \o InsertByArea(cs, Tail(s), i)
         ELSE <<i>> \o s

RECURSIVE SortedUpTo(_, _)
SortedUpTo(cs, n) ==
    IF n = 0 THEN <<>> ELSE InsertByArea(cs, SortedUpTo(cs, n - 1), n)

Reverse(s) == [k \in 1..Len(s) |-> s[Len(s) + 1 - k]]

RECURSIVE InsertAscending(_, _, _)
InsertAscending(cs, s, i) ==
    IF s = <<>> THEN <<i>>
    ELSE IF cs[Head(s)].area <= cs[i].area
         THEN <<Head(s)>> \o InsertAscending(cs, Tail(s), i)
         ELSE <<i>> \o s

RECURSIVE AscendingUpTo(_, _)
AscendingUpTo(cs, n) ==
    IF n = 0 THEN <<>> ELSE InsertAscending(cs, AscendingUpTo(cs, n - 1), n)

\* sorted(cnts, key=cv2.contourArea)[::-1]: descending, but equal areas in
\* reverse extraction order.
sortedThenReversed(cs) == Reverse(AscendingUpTo(cs, Len(cs)))

\* sorted(cnts, key=cv2.contourArea, reverse=True): descending and stable,
\* as indices into cnts.
sorted(cs) == SortedUpTo(cs, Len(cs))

\* cv2.drawContours(frame, [puzzle_cnt], -1, (0, 255, 0), 2): paints the
\* pixels under the outline of contour i green, in place.
drawContours(fr, i) == [fr EXCEPT ![i] = Green]

\* The state of the for loop: the frame buffer, puzzle_cnt, and the calls made.
LoopStart(fr) ==
    [frame |-> fr, puzzle_cnt |-> None, examined |-> <<>>, drawn |-> <<>>]

\* An iteration whose contour passes all the tests (lines 69-72).
acceptDrawingNothing(st, i) ==
    [st EXCEPT !.puzzle_cnt = Some(i), !.examined = Append(@, i)]

accept(st, i) ==
    [st EXCEPT !.puzzle_cnt = Some(i),
               !.frame = drawContours(@, i),
               !.examined = Append(@, i),
               !.drawn = Append(@, i)]

\* An iteration whose contour fails a test: nothing but the next iteration.
rejectDrawing(st, i) ==
    [st EXCEPT !.frame = drawContours(@, i),
               !.examined = Append(@, i),
               !.drawn = Append(@, i)]

reject(st, i) == [st EXCEPT !.examined = Append(@, i)]

RECURSIVE Loop(_, _, _, _)
\* for c in cnts: ... (lines 51-72), from position k of the sorted order.
Loop(cs, order, k, st) ==
    IF k > Len(order) THEN st
    ELSE LET i == order[k]
             c == cs[i]
         IN  IF c.nv = 4
             THEN IF keepDims(c.w, c.h) /\ keepAspectRatio(c.w, c.h)
                  THEN accept(st, i)                        \* break
                  ELSE Loop(cs, order, k + 1, reject(st, i))
             ELSE Loop(cs, order, k + 1, reject(st, i))

\* four_point_transform(gray, puzzle_cnt.reshape(4, 2)): the pixels of gray
\* bounded by the quadrilateral, its outline included, warped to its box.
four_point_transform(gray, cs, i) ==
    [quad |-> i, size |-> <<cs[i].w, cs[i].h>>, pix |-> gray[i]]

find_puzzle_grayAfterLoop(fr, cs) ==
    LET st   == Loop(cs, sorted(cs), 1, LoopStart(fr))
        gray == cvtColor(st.frame)
    IN  IF st.puzzle_cnt = None
        THEN st @@ [pc |-> "raised", transformed |-> None]
        ELSE st @@ [pc |-> "returned",
                    transformed |->
                        Some(four_point_transform(gray, cs, The(st.puzzle_cnt)))]

\* find_puzzle(frame), cs being the contours lines 32-44 extract from it.
find_puzzle(fr, cs) ==
    LET gray == cvtColor(fr)
        st   == Loop(cs, sorted(cs), 1, LoopStart(fr))
    IN  IF st.puzzle_cnt = None
        THEN st @@ [pc |-> "raised", transformed |-> None]
        ELSE st @@ [pc |-> "returned",
                    transformed |->
                        Some(four_point_transform(gray, cs, The(st.puzzle_cnt)))]

\* Frames: white paper around the contours; the pixels under their outlines
\* are black, or green already.
Frames(n) ==
    { [s \in 0..n |-> IF s = 0 THEN White ELSE ink] : ink \in {Black, Green} }

Ready == [pc |-> "ready", transformed |-> None, puzzle_cnt |-> None,
          examined |-> <<>>, drawn |-> <<>>]

NoCell == <<>>

InitFind ==
    /\ \E n \in 0..MaxCnts : cnts \in [1..n -> Contours]
    /\ frame \in Frames(Len(cnts))
    /\ entry = frame
    /\ puzzle = Ready
    /\ cell = NoCell
    /\ given = NoCell
    /\ calls = <<>>
    /\ rounding = "first"

\* A caller invokes find_puzzle on the frame.
FindPuzzle ==
    /\ puzzle.pc = "ready"
    /\ LET r == find_puzzle(frame, cnts)
       IN  /\ frame' = r.frame
           /\ puzzle' = [pc |-> r.pc, transformed |-> r.transformed,
                         puzzle_cnt |-> r.puzzle_cnt,
                         examined |-> r.examined, drawn |-> r.drawn]
    /\ UNCHANGED <<entry, cnts, cell, given, calls, rounding>>

NextFind == FindPuzzle

SpecFind == InitFind /\ [][NextFind]_vars

(***************************************************************************)
(* extract_digit: rasters.                                                 *)
(*                                                                         *)
(* A cell is a CellW x CellH single-channel image, pixel p at column       *)
(* p % CellW of row p \div CellW.                                          *)
(***************************************************************************)
CellW == 7
CellH == 7

Pixels == 0..(CellW * CellH - 1)
Col(p) == p % CellW
Row(p) == p \div CellW

Border == { p \in Pixels : Col(p) \in {0, CellW - 1} \/ Row(p) \in {0, CellH - 1} }

Dist(a, b) == IF a >= b THEN a - b ELSE b - a

\* 8-connectivity (cv2.findContours foreground, skimage label of a 2-D image)
N8 == [p \in Pixels |->
         { q \in Pixels : q # p /\ Dist(Col(p), Col(q)) <= 1 /\ Dist(Row(p), Row(q)) <= 1 }]

\* 4-connectivity (the background of an 8-connected foreground)
N4 == [p \in Pixels |->
         { q \in Pixels : Dist(Col(p), Col(q)) + Dist(Row(p), Row(q)) = 1 }]

\* The pixels of a binary image that are set.
Foreground(img) == { p \in Pixels : img[p] # 0 }

RECURSIVE Grow(_, _, _, _)
Grow(done, frontier, within, nb) ==
    IF frontier = {} THEN done
    ELSE LET next == ((UNION { nb[p] : p \in frontier }) \cap within) \ done
         IN  Grow(done \cup next, next, within, nb)

\* The pixels of `within` connected to `seeds` under the neighbourhood nb.
Flood(seeds, within, nb) == Grow(seeds, seeds, within, nb)

Min(S) == CHOOSE m \in S : \A n \in S : m <= n
Max(S) == CHOOSE m \in S : \A n \in S : m >= n

(***************************************************************************)
(* cv2.threshold(cell, 0, 255, THRESH_BINARY_INV | THRESH_OTSU)            *)
(***************************************************************************)
\* The gray levels of the cells are multiples of GrayStep.  Otsu's choice
\* maximises q1 q2 (mu1 - mu2)^2, whose order does not change when all
\* levels are divided by GrayStep, so the sums are taken in those units.
GrayStep == 100

\* The histogram of an image, over the levels present in it.
Histogram(img) ==
    [v \in { img[p] : p \in Pixels } |-> Cardinality({ p \in Pixels : img[p] = v })]

RECURSIVE CountIn(_, _)
\* The number of pixels whose level is in L.
CountIn(hist, L) ==
    IF L = {} THEN 0
    ELSE LET v == Min(L) IN hist[v] + CountIn(hist, L \ {v})

RECURSIVE SumIn(_, _)
\* The sum of the pixels whose level is in L, in units of GrayStep.
SumIn(hist, L) ==
    IF L = {} THEN 0
    ELSE LET v == Min(L) IN (v \div GrayStep) * hist[v] + SumIn(hist, L \ {v})

\* The between-class variance for threshold t, times the squared pixel
\* count, as a fraction <<numerator, denominator>>:
\* N1 N2 (S1/N1 - S2/N2)^2 = (S1 N2 - S2 N1)^2 / (N1 N2).
Sigma(hist, t) ==
    LET lo == { v \in DOMAIN hist : v <= t }
        hi == { v \in DOMAIN hist : v > t }
        n1 == CountIn(hist, lo)
        n2 == CountIn(hist, hi)
        s1 == SumIn(hist, lo)
        s2 == SumIn(hist, hi)
        d  == s1 * n2 - s2 * n1
    IN  <<d * d, n1 * n2>>

\* a[1]/a[2] > b[1]/b[2], for positive denominators, without overflow.
Greater(a, b) ==
    LET qa == a[1] \div a[2]
        qb == b[1] \div b[2]
    IN  IF qa # qb THEN qa > qb
        ELSE (a[1] % a[2]) * b[2] > (b[1] % b[2]) * a[2]

\* The levels that leave no class empty and whose variance no other level
\* exceeds.
Best(hist) ==
    LET cand  == DOMAIN hist \ {Max(DOMAIN hist)}
        sigma == [t \in cand |-> Sigma(hist, t)]
    IN  { t \in cand : \A u \in cand : ~Greater(sigma[u], sigma[t]) }

\* getThreshVal_Otsu_8u scans the levels 0..255 and keeps a level whose
\* variance is greater than the greatest met so far; levels that leave a
\* class empty are skipped, and 0 is the answer when all are.  The variance
\* is computed in double precision: between levels whose exact variances
\* differ the comparison comes out as in exact arithmetic, and between
\* levels whose variances are exactly equal it comes out as the rounding
\* has it, the same way in every call.  Any threshold between two adjacent
\* levels of the image binarises it alike, so the lower level stands for all.
otsu(img) ==
    LET best == Best(Histogram(img))
    IN  IF best = {} THEN 0
        ELSE IF rounding = "first" THEN Min(best) ELSE Max(best)

\* THRESH_BINARY_INV: 255 where the pixel is not above the threshold.  The
\* result is a new image.
threshold(img) ==
    LET t == otsu(img) IN [p \in Pixels |-> IF img[p] > t THEN 0 ELSE 255]

\* clear_border left out: the thresholded cell as it is.
borderKept(img) == img

\* clear_border labelling with connectivity 1: a blob that meets a border
\* pixel only diagonally is kept.
clear_border4(img) ==
    LET fg      == Foreground(img)
        touched == Flood(fg \cap Border, fg, N4)
    IN  [p \in Pixels |-> IF p \in touched THEN 0 ELSE img[p]]

(***************************************************************************)
(* skimage.segmentation.clear_border(thresh): works on a copy, labels the  *)
(* 8-connected components and sets those that hold a border pixel to 0.    *)
(***************************************************************************)
clear_border(img) ==
    LET fg      == Foreground(img)
        touched == Flood(fg \cap Border, fg, N8)
    IN  [p \in Pixels |-> IF p \in touched THEN 0 ELSE img[p]]

(***************************************************************************)
(* cv2.findContours(thresh.copy(), RETR_EXTERNAL, CHAIN_APPROX_SIMPLE)     *)
(*                                                                         *)
(* A contour is the outer border of one 8-connected component.  It is      *)
(* represented by the component (blob) and by the pixels on or inside the  *)
(* border (inside).  RETR_EXTERNAL drops the components that lie inside a  *)
(* hole of another one.                                                    *)
(***************************************************************************)
RECURSIVE ComponentsOf(_)
\* The components in the order the raster scan meets them.
ComponentsOf(fg) ==
    IF fg = {} THEN <<>>
    ELSE LET comp == Flood({Min(fg)}, fg, N8)
         IN  <<comp>> \o ComponentsOf(fg \ comp)

\* The pixels on or inside the outer border of a component: the component
\* and whatever it cuts off from the image border.
Enclosed(comp) ==
    Pixels \ Flood(Border \ comp, Pixels \ comp, N4)

\* The list is returned last-found first.
findContours(img) ==
    LET comps == ComponentsOf(Foreground(img))
        all == [k \in DOMAIN comps |-> [blob |-> comps[k], inside |-> Enclosed(comps[k])]]
        External(c) ==
            \A k \in DOMAIN all : all[k].blob = c.blob \/ ~(c.blob \subseteq all[k].inside)
    IN  Reverse(SelectSeq(all, External))

Squares == { p \in Pixels : Col(p) < CellW - 1 /\ Row(p) < CellH - 1 }

\* cv2.contourArea(c), doubled: the area of the polygon through the centres
\* of the outer border pixels.  Of every unit square between four pixel
\* centres the polygon holds all (four centres inside), half (three) or
\* nothing.
contourArea2(c) ==
    LET Corners(p) == Cardinality({p, p + 1, p + CellW, p + CellW + 1} \cap c.inside)
        full == { p \in Squares \cap c.inside : Corners(p) = 4 }
        half == { p \in Squares : Corners(p) = 3 }
    IN  2 * Cardinality(full) + Cardinality(half)

\* cs[0], the first contour of the list.
firstContour(cs) == cs[1]

\* max(cnts, key=cv2.contourArea): the first of the largest.
maxByArea(cs) ==
    LET area == [i \in DOMAIN cs |-> contourArea2(cs[i])]
        k == Min({ i \in DOMAIN cs : \A j \in DOMAIN cs : area[i] >= area[j] })
    IN  cs[k]

\* mask = np.zeros(thresh.shape); cv2.drawContours(mask, [c], -1, 255, -1):
\* the contour's outline and everything inside it.
filledMask(c) == [p \in Pixels |-> IF p \in c.inside THEN 255 ELSE 0]

\* cv2.bitwise_and(a, b, mask=mask): a new image, 0 where the mask is 0.
\* a and b are binary here, so a AND b is 255 where both are.
bitwise_and(a, b, mask) ==
    [p \in Pixels |-> IF mask[p] # 0 /\ a[p] = 255 /\ b[p] = 255 THEN 255 ELSE 0]

\* if len(cnts) <= 1
noContoursOrOne(found) == Len(found) <= 1

\* if len(cnts) == 0
noContours(found) == Len(found) = 0

\* Lines 104-117, given the thresholded, border-cleared cell: what is
\* returned, the number of contours found, and the cell buffer as the call
\* leaves it.
digitOf(c, thresh) ==
    LET found == findContours(thresh)
    IN  IF noContours(found)
        THEN [digit |-> None, empty |-> TRUE, ncnts |-> Len(found), cell |-> c]
        ELSE LET mask == filledMask(maxByArea(found))
             IN  [digit |-> Some(bitwise_and(thresh, thresh, mask)),
                  empty |-> FALSE, ncnts |-> Len(found), cell |-> c]

\* cv2.threshold(cell, ..., dst=cell): the threshold map written into the
\* caller's buffer.
extract_digit_inPlace(c) ==
    [digitOf(c, clear_border(threshold(c))) EXCEPT !.cell = threshold(c)]

\* extract_digit(cell)
extract_digit(c) == digitOf(c, clear_border(threshold(c)))

(***************************************************************************)
(* Cells handed to extract_digit: paper of one gray level, on it at most   *)
(* one body (a solid or hollow rectangle) in the opposite level, and on    *)
(* that at most one speck of one pixel.                                    *)
(***************************************************************************)
Dark == 0
Mid == 100
Light == 200

Sides == {1, 3, 5}

Bodies ==
    { b \in [x : 0..(CellW - 1), y : 0..(CellH - 1), w : Sides, h : Sides,
             hollow : BOOLEAN] :
        /\ b.x + b.w <= CellW /\ b.y + b.h <= CellH
        /\ b.hollow => (b.w >= 3 /\ b.h >= 3) }

BodyPixels(b) ==
    { p \in Pixels :
        /\ Col(p) >= b.x /\ Col(p) < b.x + b.w
        /\ Row(p) >= b.y /\ Row(p) < b.y + b.h
        /\ b.hollow => \/ Col(p) \in {b.x, b.x + b.w - 1}
                       \/ Row(p) \in {b.y, b.y + b.h - 1} }

Paint(img, S, level) == [p \in Pixels |-> IF p \in S THEN level ELSE img[p]]

Blank(level) == [p \in Pixels |-> level]

BodyShapes == {{}} \cup { BodyPixels(b) : b \in Bodies }
Specks == {{}} \cup { {p} : p \in Pixels }

\* Light paper with a dark body and a dark or mid-gray speck, or dark paper
\* with a light body.
InitDigit ==
    /\ \/ \E body \in BodyShapes, speck \in Specks, tint \in {Dark, Mid} :
             cell = Paint(Paint(Blank(Light), body, Dark), speck, tint)
       \/ \E body \in BodyShapes :
             cell = Paint(Blank(Dark), body, Light)
    /\ rounding \in IF Cardinality(Best(Histogram(cell))) > 1
                    THEN {"first", "last"} ELSE {"first"}
    /\ given = cell
    /\ calls = <<>>
    /\ cnts = <<>>
    /\ frame = <<>>
    /\ entry = <<>>
    /\ puzzle = Ready

\* A caller invokes extract_digit on the cell; it may do so again.
ExtractDigit ==
    /\ Len(calls) < 2
    /\ LET r == extract_digit(cell)
       IN  /\ cell' = r.cell
           /\ calls' = Append(calls, [digit |-> r.digit, empty |-> r.empty,
                                      ncnts |-> r.ncnts])
    /\ UNCHANGED <<given, rounding, frame, entry, cnts, puzzle>>

NextDigit == ExtractDigit

SpecDigit == InitDigit /\ [][NextDigit]_vars

(***************************************************************************)
(* Properties of find_puzzle.                                              *)
(***************************************************************************)
\* The three tests of the loop, stated on one contour.
Qualifies(c) ==
    /\ c.nv = 4
    /\ c.w > 45 /\ c.h > 45
    /\ 5 * c.w >= 4 * c.h /\ 5 * c.w <= 6 * c.h

\* Contour j comes before contour i in descending order of area, equal
\* areas in extraction order.
Before(j, i) ==
    \/ cnts[j].area > cnts[i].area
    \/ (cnts[j].area = cnts[i].area /\ j < i)

Range(s) == { s[k] : k \in DOMAIN s }

Finished == puzzle.pc # "ready"
Returned == puzzle.pc = "returned"
Raised == puzzle.pc = "raised"

\* C1: find_puzzle raises PuzzleNotFoundError if and only if no extracted
\* contour has a 4-vertex approximation whose box has w > 45, h > 45 and
\* 0.8 <= w/h <= 1.2; otherwise it returns a view; a call ends in exactly
\* one of the two ways.
C1_RaisesIffNoneQualifies ==
    Finished =>
        /\ puzzle.pc \in {"raised", "returned"}
        /\ Raised <=> \A i \in DOMAIN cnts : ~Qualifies(cnts[i])
        /\ Raised <=> puzzle.transformed = None
        /\ Returned <=> puzzle.transformed # None

\* A call that raised although the frame holds a 4-vertex contour with a
\* square box, exactly at the size minimum.
C1_Witness ==
    /\ Raised
    /\ \E i \in DOMAIN cnts :
          cnts[i].nv = 4 /\ cnts[i].w = 45 /\ cnts[i].h = 45

\* C2: the accepted quadrilateral is the first qualifying contour in
\* descending order of area, equal areas in extraction order: every contour
\* before it was examined and fails a test, and no contour after it was
\* examined.
C2_FirstQualifyingByArea ==
    Returned =>
        LET a == The(puzzle.puzzle_cnt)
        IN  /\ a \in DOMAIN cnts
            /\ Qualifies(cnts[a])
            /\ The(puzzle.transformed).quad = a
            /\ \A j \in DOMAIN cnts :
                  Before(j, a) => ~Qualifies(cnts[j]) /\ j \in Range(puzzle.examined)
            /\ \A j \in DOMAIN cnts :
                  Before(a, j) => j \notin Range(puzzle.examined)

\* A call that accepted a contour although a larger one (which fails a
\* test) came first and a qualifying one of the same area was extracted
\* after it.
C2_Witness ==
    /\ Returned
    /\ \E j, k \in DOMAIN cnts :
          LET a == The(puzzle.puzzle_cnt)
          IN  /\ cnts[j].area > cnts[a].area
              /\ k > a /\ cnts[k].area = cnts[a].area /\ Qualifies(cnts[k])

\* C8 as stated: after every call the frame holds the pixel values it held
\* before it.
C8_FrameReadOnly == Finished => frame = entry

\* C8 as amended: a call that raises leaves the frame as it was; a call that
\* returns a view leaves every pixel that is not under the accepted
\* contour's outline as it was and paints those under it green.
C8_FrameChangedOnlyUnderOutline ==
    /\ Raised => \A s \in DOMAIN frame : frame[s] = entry[s]
    /\ Returned =>
          \A s \in DOMAIN frame :
              frame[s] = IF s = The(puzzle.puzzle_cnt) THEN Green ELSE entry[s]

\* A call that returned a view and left the frame different from what the
\* caller passed.
C8_Witness == Returned /\ frame # entry

\* C9: the frame is changed by one cv2.drawContours call at most, that of
\* the accepted contour; no rejected contour is drawn, and a call that
\* raises draws nothing and leaves the frame as it was on entry.
C9_OnlyAcceptedContourDrawn ==
    Finished =>
        /\ Len(puzzle.drawn) <= 1
        /\ \A k \in DOMAIN puzzle.drawn :
              /\ Qualifies(cnts[puzzle.drawn[k]])
              /\ puzzle.puzzle_cnt = Some(puzzle.drawn[k])
        /\ Raised => puzzle.drawn = <<>> /\ frame = entry
        /\ Returned => frame = drawContours(entry, The(puzzle.puzzle_cnt))

\* A call that examined and rejected two contours before it drew the one
\* it accepted.
C9_Witness ==
    /\ Returned
    /\ Len(puzzle.examined) = 3
    /\ puzzle.drawn = <<puzzle.examined[3]>>
    /\ frame # entry

\* C10: the returned view is made of the grayscale image of the frame as it
\* was on entry: the green outline drawn on the frame is not in the view.
C10_ViewFromEntryFrame ==
    Returned =>
        LET a == The(puzzle.puzzle_cnt)
            v == The(puzzle.transformed)
        IN  /\ v.quad = a
            /\ v.pix = GrayOf(entry[a])
            /\ v.size = <<cnts[a].w, cnts[a].h>>

\* A call whose drawing changed the gray level of the outline's pixels in
\* the frame, while the view holds the level they had on entry.
C10_Witness ==
    /\ Returned
    /\ LET a == The(puzzle.puzzle_cnt)
       IN  /\ GrayOf(frame[a]) # GrayOf(entry[a])
           /\ The(puzzle.transformed).pix = GrayOf(entry[a])

(***************************************************************************)
(* Properties of extract_digit.                                            *)
(***************************************************************************)
\* The thresholded cell, before and after the border is cleared.
Thresholded == threshold(given)
Cleared == clear_border(Thresholded)

\* The foreground blobs of a binary image.
Blobs(img) == Range(ComponentsOf(Foreground(img)))

\* Of the blobs B, those that lie inside no hole of another: the ones whose
\* outer border RETR_EXTERNAL reports.
Outer(B) == { b \in B : \A o \in B : o = b \/ ~(b \subseteq Enclosed(o)) }

Largest(B) ==
    LET area == [b \in B |-> contourArea2([blob |-> b, inside |-> Enclosed(b)])]
    IN  { b \in B : \A o \in B : area[b] >= area[o] }

\* C3: extract_digit returns (None, True) if and only if no contour is found
\* in the thresholded, border-cleared cell, and (mask, False) otherwise: the
\* mask is absent exactly when the flag is True.
C3_EmptyIffNoContours ==
    calls # <<>> =>
        LET cleared == Cleared
        IN  \A k \in DOMAIN calls :
                /\ calls[k].empty \in BOOLEAN
                /\ calls[k].empty <=> calls[k].digit = None
                /\ calls[k].empty <=> Foreground(cleared) = {}
                /\ calls[k].ncnts = Cardinality(Outer(Blobs(cleared)))

\* A call that returned a mask from a cell in which two contours were found.
C3_Witness ==
    /\ calls # <<>>
    /\ ~calls[1].empty /\ calls[1].digit # None
    /\ calls[1].ncnts = 2

\* C4 as stated: a mask is exactly one foreground blob of the thresholded,
\* border-cleared cell, one of largest contour area; no pixel of any other
\* blob is in it.
C4_MaskIsOneBlob ==
    (calls # <<>> /\ ~calls[1].empty) =>
        LET largest == Largest(Outer(Blobs(Cleared)))
        IN  \A k \in DOMAIN calls :
                \E b \in largest : Foreground(The(calls[k].digit)) = b

\* C4 as amended: a mask is the thresholded, border-cleared cell cut to the
\* outline and inside of one contour, one of largest contour area: it holds
\* that blob whole and the blobs inside its holes, and no pixel of any other
\* blob.
C4_MaskIsInsideOfLargestContour ==
    (calls # <<>> /\ ~calls[1].empty) =>
        LET blobs   == Blobs(Cleared)
            largest == Largest(Outer(blobs))
        IN  \A k \in DOMAIN calls :
                \E b \in largest :
                    LET m  == Foreground(The(calls[k].digit))
                        in == Enclosed(b)
                    IN  /\ b \subseteq m
                        /\ \A o \in blobs :
                              IF o \subseteq in THEN o \subseteq m ELSE o \cap m = {}

\* A call whose mask holds two blobs: the largest one and one inside a hole
\* of it.
C4_Witness ==
    /\ calls # <<>>
    /\ ~calls[1].empty
    /\ LET blobs == Blobs(Cleared)
           m == Foreground(The(calls[1].digit))
       IN  \E b \in Outer(blobs), o \in blobs :
              o # b /\ b \subseteq m /\ o \subseteq m

\* C5: a cell whose thresholded foreground has no blob free of the image
\* border (a uniform cell among them) is classified empty: (None, True).
C5_BorderOnlyIsEmpty ==
    calls # <<>> =>
        ((\A b \in Blobs(Thresholded) : b \cap Border # {})
            => \A k \in DOMAIN calls : calls[k].digit = None /\ calls[k].empty)

\* A call that classified as empty a cell whose thresholded foreground is
\* two blobs, both on the border.
C5_Witness ==
    /\ calls # <<>>
    /\ calls[1].empty
    /\ LET blobs == Blobs(Thresholded)
       IN  Cardinality(blobs) = 2 /\ \A b \in blobs : b \cap Border # {}

\* C6: a mask is binary, has at least one foreground pixel and fewer than
\* the cell has pixels, and none of its foreground pixels is on the border
\* of the cell or in a blob of the thresholded cell that touches it.
C6_MaskBinaryInteriorNonEmpty ==
    (calls # <<>> /\ ~calls[1].empty) =>
        LET blobs == Blobs(Thresholded)
        IN  \A k \in DOMAIN calls :
                LET mask == The(calls[k].digit)
                    m == Foreground(mask)
                IN  /\ DOMAIN mask = Pixels
                    /\ \A p \in Pixels : mask[p] \in {0, 255}
                    /\ Cardinality(m) > 0
                    /\ Cardinality(m) < CellW * CellH
                    /\ m \cap Border = {}
                    /\ \A b \in blobs : b \cap Border # {} => b \cap m = {}

\* A call that returned a mask from a cell whose thresholded foreground
\* also had a blob on the border.
C6_Witness ==
    /\ calls # <<>>
    /\ ~calls[1].empty
    /\ \E b \in Blobs(Thresholded) : b \cap Border # {}

\* C7: two calls in succession on the same cell return the same mask and
\* flag, and no call changes the cell buffer.
C7_SecondCallSameResult ==
    /\ calls # <<>> => cell = given
    /\ Len(calls) = 2 =>
          /\ calls[1].digit = calls[2].digit
          /\ calls[1].empty = calls[2].empty

\* Two calls were made on a cell and both returned a mask.
C7_Witness ==
    /\ Len(calls) = 2
    /\ ~calls[1].empty /\ ~calls[2].empty
    /\ cell = given

====
